---- MODULE Spec2Model ----
(***************************************************************************)
(* Model of metobjects_app.py: the extraction of the working copy          *)
(* (descompactar_database), the exit hook (excluir_database), the cached   *)
(* query functions (st.cache_data) and the script runs that call them.     *)
(*                                                                         *)
(* One Streamlit process executes the script once per user interaction     *)
(* (a "run").  The module-level code of a run registers the exit hook,     *)
(* calls the extractor, checks the working copy and then calls main().     *)
(* Pages modelled in main(): "Consulta SQL", "Consulta com IA" and         *)
(* "Filtrar Objetos"; the other pages only issue further SELECTs through   *)
(* executar_consulta.                                                      *)
(***************************************************************************)
EXTENDS Integers, Sequences, FiniteSets, TLC

VARIABLES
    gzExiste,     \* os.path.exists(GZIP_PATH)
    db,           \* the file at DB_PATH
    proc,         \* the process: "vivo", "saindo" (atexit running), "morto"
    pc,           \* position of the script run inside the process
    registros,    \* number of atexit registrations of excluir_database
    pendentes,    \* exit-hook invocations still to run while "saindo"
    now,          \* wall clock, seconds
    cache,        \* st.cache_data entries: <<function, argument>> -> entry
    sessao,       \* st.session_state of the browser session
    rerun,        \* st.rerun() was requested: the next run has no button pressed
    retExtrator,  \* return value of this run's descompactar_database call
    ev,           \* what the last step did (operation, outcome, cache calls)
    pressionada,  \* history: "Executar Consulta SQL" was pressed after the
                  \* last query the assistant generated
    lidoEstat,    \* history: time of the oldest database read behind the
                  \* value obter_estatisticas last computed, -1 when none
    pcS,          \* concurrent sessions: position of each session's script run
    posS,         \* concurrent sessions: blocks the copy of each run has
                  \* written, 0 when the run is not copying
    escritos,     \* concurrent sessions: blocks the copies have put in DB_PATH
    copias        \* concurrent sessions: copies started in this process

\* The variables of the runs of concurrent sessions (SpecConc)
varsConc == <<pcS, posS, escritos, copias>>

vars == <<gzExiste, db, proc, pc, registros, pendentes, now, cache, sessao,
          rerun, retExtrator, ev, pressionada, lidoEstat, pcS, posS, escritos,
          copias>>

----------------------------------------------------------------------------
(* Bounds of the model *)

MaxNow == 7200

MaxRegistros == 3

NBlocos == 2
\* Number of browser sessions whose script runs overlap in the process
NSessoes == 2
\* Last instant of the clock of SpecConc
MaxNowConc == 1800
\* Longest time, in seconds, the body of obter_estatisticas takes (SpecEstat)
MaxDemora == 2
\* Last instant of the clock of SpecEstat
MaxNowEstat == 10801

PassosRelogio == {1800, 3600}

(* Program constants *)

TTL_CONSULTA == 3600

TTL_COLUNAS == 3600

TTL_VALORES == 3600

TTL_SCHEMA == 7200

TTL_ESTATISTICAS == 3600

----------------------------------------------------------------------------
(* The file at DB_PATH.  bytes counts the blocks copied by                 *)
(* shutil.copyfileobj; the file holds the whole database when              *)
(* bytes = NBlocos.  tabela tells whether table metobjects is in it.       *)

DbAusente == [existe |-> FALSE, bytes |-> 0, tabela |-> FALSE]

DbCompleto == [existe |-> TRUE, bytes |-> NBlocos, tabela |-> TRUE]

DbRecemAberto == [existe |-> TRUE, bytes |-> 0, tabela |-> FALSE]

Truncado(d) == d.existe /\ d.bytes < NBlocos

SessaoInicial ==
    [consulta_sql_gerada |-> "", resposta_texto |-> "", mostrar_resultados |-> FALSE]

CacheVazio == [k \in {} |-> 0]

SemEvento == [op |-> "nenhum"]

----------------------------------------------------------------------------
(* Start-up of a run: module-level code, lines 145-156 *)

\* The sessions of the process; Streamlit runs each session's script in a
\* thread of its own
Sessoes == 1..NSessoes

\* The blocks of a complete working copy
Blocos == 0..(NBlocos - 1)

\* No session has a script run in progress and nothing was copied yet
ConcInicial ==
    /\ pcS = [s \in Sessoes |-> "ocioso"]
    /\ posS = [s \in Sessoes |-> 0]
    /\ escritos = {}
    /\ copias = 0

TypeOK ==
    /\ gzExiste \in BOOLEAN
    /\ db \in [existe : BOOLEAN, bytes : 0..NBlocos, tabela : BOOLEAN]
    /\ proc \in {"vivo", "saindo", "morto"}
    /\ pc \in {"ocioso", "descompactar", "abrir", "copiando", "verificar", "main"}
    /\ registros \in 0..MaxRegistros
    /\ pendentes \in 0..MaxRegistros
    /\ now \in 0..MaxNow
    /\ rerun \in BOOLEAN
    /\ retExtrator \in {"nenhum", "True", "False"}

Init ==
    /\ gzExiste \in BOOLEAN
    /\ db \in {DbAusente, DbCompleto}
    /\ proc = "vivo"
    /\ pc = "ocioso"
    /\ registros = 0
    /\ pendentes = 0
    /\ now = 0
    /\ cache = CacheVazio
    /\ sessao = SessaoInicial
    /\ rerun = FALSE
    /\ retExtrator = "nenhum"
    /\ ev = SemEvento
    /\ pressionada = FALSE
    /\ lidoEstat = -1
    /\ ConcInicial

\* IniciarExecucao without the registration of line 146
IniciarExecucao_sem_registro ==
    /\ UNCHANGED varsConc
    /\ UNCHANGED <<pressionada, lidoEstat>>
    /\ proc = "vivo"
    /\ pc = "ocioso"
    /\ registros < MaxRegistros
    /\ pc' = "descompactar"
    /\ retExtrator' = "nenhum"
    /\ ev' = [op |-> "inicio"]
    /\ UNCHANGED <<gzExiste, db, proc, registros, pendentes, now, cache, sessao, rerun>>

\* line 146: atexit.register(excluir_database), executed by every run
IniciarExecucao ==
    /\ UNCHANGED varsConc
    /\ UNCHANGED <<pressionada, lidoEstat>>
    /\ proc = "vivo"
    /\ pc = "ocioso"
    /\ registros < MaxRegistros
    /\ registros' = registros + 1
    /\ pc' = "descompactar"
    /\ retExtrator' = "nenhum"
    /\ ev' = [op |-> "atexit.register"]
    /\ UNCHANGED <<gzExiste, db, proc, pendentes, now, cache, sessao, rerun>>

\* The event recorded when descompactar_database returns; dbAntes and
\* gzAntes are the two files as the call found them
EvExtrator(ret, msg, dbAntes) ==
    [op |-> "descompactar_database", retornou |-> TRUE, ret |-> ret, msg |-> msg,
     dbAntes |-> dbAntes, gzAntes |-> gzExiste]

\* The event recorded while descompactar_database is still copying
EvExtraindo(dbAntes) ==
    [op |-> "descompactar_database", retornou |-> FALSE, ret |-> FALSE, msg |-> "",
     dbAntes |-> dbAntes, gzAntes |-> gzExiste]

\* apos_extrator without the st.stop() of line 150
apos_extrator_sem_stop(ret) == "verificar"

\* lines 149-150: the run goes on after True and st.stop() ends it after False
apos_extrator(ret) == IF ret THEN "verificar" ELSE "ocioso"

\* descompactar_teste copying again over a working copy that is there
descompactar_teste_sempre_extrai(gz, d) ==
    IF gz THEN "extrair" ELSE "False"

\* descompactar_teste looking at the working copy before the archive
descompactar_teste_copia_primeiro(gz, d) ==
    IF d.existe THEN "True" ELSE IF gz THEN "extrair" ELSE "False"

\* lines 46-50 and 57-66: the two existence tests of descompactar_database.
\* The result is "False" (archive missing), "True" (working copy already
\* there) or "extrair" (the copy of lines 51-56 has to be done).
descompactar_teste(gz, d) ==
    IF gz
    THEN IF ~d.existe THEN "extrair" ELSE "True"
    ELSE "False"

\* line 149 calling lines 46-50, 57-66; st.stop() of line 150 ends the run
DescompactarInicio ==
    /\ UNCHANGED varsConc
    /\ UNCHANGED <<pressionada, lidoEstat>>
    /\ proc = "vivo"
    /\ pc = "descompactar"
    /\ LET r == descompactar_teste(gzExiste, db) IN
         CASE r = "False" ->
                /\ retExtrator' = "False"
                /\ pc' = apos_extrator(FALSE)
                /\ ev' = EvExtrator(FALSE, "nao_encontrado", db)
           [] r = "True" ->
                /\ retExtrator' = "True"
                /\ pc' = apos_extrator(TRUE)
                /\ ev' = EvExtrator(TRUE, "", db)
           [] OTHER ->
                /\ retExtrator' = retExtrator
                /\ pc' = "abrir"
                /\ ev' = EvExtraindo(db)
    /\ rerun' = (rerun /\ pc' # "ocioso")
    /\ UNCHANGED <<gzExiste, db, proc, registros, pendentes, now, cache, sessao>>

\* lines 53-54: gzip.open and open(DB_PATH, 'wb') create the empty target
AbrirDestino ==
    /\ UNCHANGED varsConc
    /\ UNCHANGED <<pressionada, lidoEstat>>
    /\ proc = "vivo"
    /\ pc = "abrir"
    /\ db' = DbRecemAberto
    /\ pc' = "copiando"
    /\ ev' = EvExtraindo(ev.dbAntes)
    /\ UNCHANGED <<gzExiste, proc, registros, pendentes, now, cache, sessao, rerun,
                   retExtrator>>

\* line 55: shutil.copyfileobj writes the next block
CopiarBloco ==
    /\ UNCHANGED varsConc
    /\ UNCHANGED <<pressionada, lidoEstat>>
    /\ proc = "vivo"
    /\ pc = "copiando"
    /\ db.bytes < NBlocos
    /\ db' = [db EXCEPT !.bytes = @ + 1, !.tabela = (db.bytes + 1 = NBlocos)]
    /\ ev' = EvExtraindo(ev.dbAntes)
    /\ UNCHANGED <<gzExiste, proc, pc, registros, pendentes, now, cache, sessao, rerun,
                   retExtrator>>

\* lines 56-57: end of the copy, return True
FimCopia ==
    /\ UNCHANGED varsConc
    /\ UNCHANGED <<pressionada, lidoEstat>>
    /\ proc = "vivo"
    /\ pc = "copiando"
    /\ db.bytes = NBlocos
    /\ retExtrator' = "True"
    /\ pc' = apos_extrator(TRUE)
    /\ rerun' = (rerun /\ pc' # "ocioso")
    /\ ev' = EvExtrator(TRUE, "", ev.dbAntes)
    /\ UNCHANGED <<gzExiste, db, proc, registros, pendentes, now, cache, sessao>>

\* lines 67-69: gzip.open, open or copyfileobj raised (bad gzip data, disk
\* full, ...): the except clause returns False and leaves the target as it
\* is; st.stop() of line 150 ends the run
FalhaExtracao ==
    /\ UNCHANGED varsConc
    /\ UNCHANGED <<pressionada, lidoEstat>>
    /\ proc = "vivo"
    /\ pc \in {"abrir", "copiando"}
    /\ retExtrator' = "False"
    /\ pc' = apos_extrator(FALSE)
    /\ rerun' = (rerun /\ pc' # "ocioso")
    /\ ev' = EvExtrator(FALSE, "erro_preparar", ev.dbAntes)
    /\ UNCHANGED <<gzExiste, db, proc, registros, pendentes, now, cache, sessao>>

\* lines 153-156: second existence check, st.stop() when it fails
VerificarDB ==
    /\ UNCHANGED varsConc
    /\ UNCHANGED <<pressionada, lidoEstat>>
    /\ proc = "vivo"
    /\ pc = "verificar"
    /\ IF db.existe
       THEN pc' = "main" /\ rerun' = rerun
       ELSE pc' = "ocioso" /\ rerun' = FALSE
    /\ ev' = [op |-> "verificar_db", existe |-> db.existe]
    /\ UNCHANGED <<gzExiste, db, proc, registros, pendentes, now, cache, sessao,
                   retExtrator>>

----------------------------------------------------------------------------
(* Process exit: lines 72-86 and the atexit machinery *)

\* excluir_database with os.remove outside the try of line 74
excluir_database_sem_try(d, closeOk, removeOk) ==
    IF d.existe
    THEN IF removeOk
         THEN [db |-> DbAusente, resultado |-> "excluido", levantou |-> FALSE,
               tentouRemover |-> TRUE]
         ELSE [db |-> d, resultado |-> "nada", levantou |-> TRUE,
               tentouRemover |-> TRUE]
    ELSE [db |-> d, resultado |-> "nada", levantou |-> FALSE,
          tentouRemover |-> FALSE]

\* excluir_database without the inner try of lines 76-80: a failure of the
\* connect-and-close step goes to the except clause of line 85
excluir_database_fecha_sem_try(d, closeOk, removeOk) ==
    IF d.existe
    THEN IF ~closeOk
         THEN [db |-> d, resultado |-> "erro_registrado", levantou |-> FALSE,
               tentouRemover |-> FALSE]
         ELSE IF removeOk
              THEN [db |-> DbAusente, resultado |-> "excluido",
                    levantou |-> FALSE, tentouRemover |-> TRUE]
              ELSE [db |-> d, resultado |-> "erro_registrado",
                    levantou |-> FALSE, tentouRemover |-> TRUE]
    ELSE [db |-> d, resultado |-> "nada", levantou |-> FALSE,
          tentouRemover |-> FALSE]

\* lines 72-86: excluir_database.  closeOk tells whether sqlite3.connect and
\* conn.close() of lines 77-78 succeed, removeOk whether os.remove of line
\* 83 succeeds.  The connect on the existing file does not change it; the
\* bare except of lines 79-80 swallows its failure, so os.remove is tried
\* whatever closeOk is.  A failing os.remove goes to the except clause of
\* line 85, which prints the error.
excluir_database(d, closeOk, removeOk) ==
    IF d.existe
    THEN IF removeOk
         THEN [db |-> DbAusente, resultado |-> "excluido", levantou |-> FALSE,
               tentouRemover |-> TRUE]
         ELSE [db |-> d, resultado |-> "erro_registrado", levantou |-> FALSE,
               tentouRemover |-> TRUE]
    ELSE [db |-> d, resultado |-> "nada", levantou |-> FALSE,
          tentouRemover |-> FALSE]

\* normal termination of the process: the server stops its sessions and the
\* interpreter starts running the registered exit functions. No script run
\* follows in this process, and the exit functions read neither the caches
\* nor the session state, which end here.
Encerrar ==
    /\ UNCHANGED varsConc
    /\ pressionada' = FALSE
    /\ lidoEstat' = -1
    /\ proc = "vivo"
    /\ pc = "ocioso"
    /\ ~rerun
    /\ proc' = "saindo"
    /\ pendentes' = registros
    /\ cache' = CacheVazio
    /\ sessao' = SessaoInicial
    /\ ev' = [op |-> "encerrar"]
    /\ UNCHANGED <<gzExiste, db, pc, registros, now, rerun, retExtrator>>

\* one registered invocation of excluir_database
AtexitExcluir ==
    /\ UNCHANGED varsConc
    /\ UNCHANGED <<pressionada, lidoEstat>>
    /\ proc = "saindo"
    /\ pendentes > 0
    /\ \E closeOk \in BOOLEAN, removeOk \in BOOLEAN :
         LET r == excluir_database(db, closeOk, removeOk) IN
           /\ db' = r.db
           /\ ev' = [op |-> "excluir_database", resultado |-> r.resultado,
                     levantou |-> r.levantou, dbAntes |-> db,
                     fechou |-> (db.existe /\ closeOk),
                     tentouRemover |-> r.tentouRemover]
    /\ pendentes' = pendentes - 1
    /\ UNCHANGED <<gzExiste, proc, pc, registros, now, cache, sessao, rerun, retExtrator>>

FimProcesso ==
    /\ UNCHANGED varsConc
    /\ UNCHANGED <<pressionada, lidoEstat>>
    /\ proc = "saindo"
    /\ pendentes = 0
    /\ proc' = "morto"
    /\ ev' = [op |-> "fim_processo"]
    /\ UNCHANGED <<gzExiste, db, pc, registros, pendentes, now, cache, sessao, rerun,
                   retExtrator>>

\* the process is killed (SIGKILL, power loss): no exit function runs, and
\* the caches and the session state are gone with the memory of the process
Matar ==
    /\ UNCHANGED varsConc
    /\ pressionada' = FALSE
    /\ lidoEstat' = -1
    /\ proc = "vivo"
    /\ proc' = "morto"
    /\ pc' = "ocioso"
    /\ rerun' = FALSE
    /\ cache' = CacheVazio
    /\ sessao' = SessaoInicial
    /\ ev' = [op |-> "matar"]
    /\ UNCHANGED <<gzExiste, db, registros, pendentes, now, retExtrator>>

\* a new process: the in-memory caches, the session and the atexit list are new
Reiniciar ==
    /\ UNCHANGED varsConc
    /\ pressionada' = FALSE
    /\ lidoEstat' = -1
    /\ proc = "morto"
    /\ proc' = "vivo"
    /\ pc' = "ocioso"
    /\ registros' = 0
    /\ pendentes' = 0
    /\ cache' = CacheVazio
    /\ sessao' = SessaoInicial
    /\ rerun' = FALSE
    /\ retExtrator' = "nenhum"
    /\ ev' = [op |-> "reiniciar"]
    /\ UNCHANGED <<gzExiste, db, now>>

\* time passes between two interactions
Tick ==
    /\ UNCHANGED varsConc
    /\ UNCHANGED <<pressionada, lidoEstat>>
    /\ proc = "vivo"
    /\ pc = "ocioso"
    /\ ~rerun
    /\ \E d \in PassosRelogio :
         /\ now + d <= MaxNow
         /\ now' = now + d
    /\ ev' = [op |-> "tick"]
    /\ UNCHANGED <<gzExiste, db, proc, pc, registros, pendentes, cache, sessao, rerun,
                   retExtrator>>

----------------------------------------------------------------------------
(* Query texts and their results *)

\* the five queries of obter_estatisticas, lines 239-256, in call order
ConsultasEstat ==
    <<"Q_total_objetos", "Q_total_departamentos", "Q_total_culturas",
      "Q_total_artistas", "Q_total_tipos_objetos">>

\* the three queries of the examples expander, lines 746-756
ConsultasExemplo == <<"Q_ex_department", "Q_ex_culture", "Q_ex_object_name">>

\* texts typed in the editor of the page "Consulta SQL" (line 608): a SELECT
\* with rows, a SELECT matching no row, a text the engine rejects, a DDL
\* statement (DROP TABLE metobjects) and the text of the first statistics query
ConsultasUsuario == {"Q_select", "Q_vazio", "Q_erro", "Q_ddl", "Q_total_objetos"}

\* what consultar_ia (lines 89-143) may answer
RespostasIA == {"sql_ia", "sql_ia_erro", "texto", "None"}

Tipo(q) ==
    CASE q \in {"Q_erro", "Q_ia_erro"} -> "erro"
      [] q = "Q_ddl" -> "ddl"
      [] q = "Q_vazio" -> "vazio"
      [] OTHER -> "select"

\* pd.DataFrame(): no column, no row
DFVazio == [colunas |-> <<>>, linhas |-> <<>>]

\* the rows the engine returns for a text it accepts while the table is there
Resultado(q) ==
    CASE Tipo(q) = "vazio" -> [colunas |-> <<"Object ID">>, linhas |-> <<>>]
      [] q \in {ConsultasEstat[i] : i \in 1..Len(ConsultasEstat)} ->
            [colunas |-> <<"COUNT">>, linhas |-> << <<q>> >>]
      [] OTHER -> [colunas |-> <<"Object ID", "Title">>,
                   linhas |-> << <<q, "2">>, <<q, "1">> >>]

----------------------------------------------------------------------------
(* st.cache_data: one entry per function and argument, lines 159, 171, 181,
   191, 234 *)

TTL(fn) ==
    CASE fn = "executar_consulta" -> TTL_CONSULTA
      [] fn = "obter_colunas" -> TTL_COLUNAS
      [] fn = "obter_valores_unicos" -> TTL_VALORES
      [] fn = "obter_schema_info" -> TTL_SCHEMA
      [] fn = "obter_estatisticas" -> TTL_ESTATISTICAS

\* Vivo with entries that never expire
Vivo_sem_prazo(c, k, t) == k \in DOMAIN c

\* the entry for key k can be served at time t
Vivo(c, k, t) == k \in DOMAIN c /\ t - c[k].criado < TTL(k[1])

\* Guardar evicting every other entry when it stores one
Guardar_despeja(c, k, t, v) ==
    [x \in {k} |-> [criado |-> t, valor |-> v]]

\* st.cache_data storing the value a body returned: the entry for k is
\* written as a whole and no other entry is touched
Guardar(c, k, t, v) ==
    [x \in (DOMAIN c) \cup {k} |-> IF x = k THEN [criado |-> t, valor |-> v] ELSE c[x]]

\* one call of a cached function, as seen from outside: acerto = the call
\* was served from the cache; executou = the body ran; falhou = the body hit
\* an exception; levantou = the exception reached the caller; dbAntes and
\* criadoAntes = the working copy and the age of the entry the call found
\* when the entry for key k was stored, -1 when there is none
CriadoEm(c, k) == IF k \in DOMAIN c THEN c[k].criado ELSE -1

\* lines 162-164, 173-177, 183-187, 193-230: the connections a call has
\* opened and not closed when it ends.  conn.close() is the last statement
\* before the return and is in no finally clause, so it is skipped whenever
\* a statement after sqlite3.connect raises; the connection then stays open
\* until the interpreter finalises the object.  obter_estatisticas opens no
\* connection of its own.
conexoes_abertas(fn, executou, falhou) ==
    IF fn # "obter_estatisticas" /\ executou /\ falhou THEN 1 ELSE 0

Chamada(fn, arg, acerto, executou, falhou, levantou, ret, w, t) ==
    [fn |-> fn, arg |-> arg, acerto |-> acerto, executou |-> executou,
     falhou |-> falhou, levantou |-> levantou, ret |-> ret, dbAntes |-> w.db,
     criadoAntes |-> CriadoEm(w.cache, <<fn, arg>>), em |-> t,
     abertas |-> conexoes_abertas(fn, executou, falhou)]

\* sqlite3.connect(DB_PATH) creates an empty file when there is none
conectar(d) == IF d.existe THEN d ELSE DbRecemAberto

\* the engine can read table metobjects
Legivel(d) == d.existe /\ d.bytes = NBlocos /\ d.tabela

\* lines 161-168: the body of executar_consulta.  Every exception is caught
\* and pd.DataFrame() is returned.  A DDL statement is executed by
\* cursor.execute (the sqlite3 module opens no transaction for it) before
\* read_sql_query fails on the missing result set.
consulta_corpo(d, q) ==
    LET d1 == conectar(d) IN
      IF ~Legivel(d1) \/ Tipo(q) = "erro"
      THEN [db |-> d1, df |-> DFVazio, falhou |-> TRUE]
      ELSE IF Tipo(q) = "ddl"
           THEN [db |-> [d1 EXCEPT !.tabela = FALSE], df |-> DFVazio, falhou |-> TRUE]
           ELSE [db |-> d1, df |-> Resultado(q), falhou |-> FALSE]

\* executar_consulta without the decorator of line 159: the body always runs
executar_consulta_sem_cache(w, q, t) ==
    LET k == <<"executar_consulta", q>>
        r == consulta_corpo(w.db, q) IN
      [db |-> r.db, cache |-> Guardar(w.cache, k, t, r.df), ret |-> r.df,
       levantou |-> FALSE,
       log |-> Append(w.log, Chamada(k[1], q, FALSE, TRUE, r.falhou, FALSE, r.df, w, t))]

\* executar_consulta storing nothing when the query failed
executar_consulta_esquece_falha(w, q, t) ==
    LET k == <<"executar_consulta", q>> IN
      IF Vivo(w.cache, k, t)
      THEN [db |-> w.db, cache |-> w.cache, ret |-> w.cache[k].valor, levantou |-> FALSE,
            log |-> Append(w.log, Chamada(k[1], q, TRUE, FALSE, FALSE, FALSE,
                                          w.cache[k].valor, w, t))]
      ELSE LET r == consulta_corpo(w.db, q) IN
             [db |-> r.db,
              cache |-> IF r.falhou THEN w.cache ELSE Guardar(w.cache, k, t, r.df),
              ret |-> r.df, levantou |-> FALSE,
              log |-> Append(w.log, Chamada(k[1], q, FALSE, TRUE, r.falhou, FALSE,
                                            r.df, w, t))]

\* lines 159-168: executar_consulta behind st.cache_data(ttl=3600).  The
\* except clause of lines 166-168 returns pd.DataFrame(), and the decorator
\* stores whatever the function returns.
executar_consulta(w, q, t) ==
    LET k == <<"executar_consulta", q>> IN
      IF Vivo(w.cache, k, t)
      THEN [db |-> w.db, cache |-> w.cache, ret |-> w.cache[k].valor, levantou |-> FALSE,
            log |-> Append(w.log, Chamada(k[1], q, TRUE, FALSE, FALSE, FALSE,
                                          w.cache[k].valor, w, t))]
      ELSE LET r == consulta_corpo(w.db, q) IN
             [db |-> r.db, cache |-> Guardar(w.cache, k, t, r.df), ret |-> r.df,
              levantou |-> FALSE,
              log |-> Append(w.log, Chamada(k[1], q, FALSE, TRUE, r.falhou, FALSE,
                                            r.df, w, t))]

\* st.cache_data around a body that may raise: b is the outcome of running
\* the body in world w.  A call that raises stores nothing.
Cacheada(w, fn, arg, t, b) ==
    LET k == <<fn, arg>> IN
      IF Vivo(w.cache, k, t)
      THEN [db |-> w.db, cache |-> w.cache, ret |-> w.cache[k].valor, levantou |-> FALSE,
            log |-> Append(w.log, Chamada(fn, arg, TRUE, FALSE, FALSE, FALSE,
                                          w.cache[k].valor, w, t))]
      ELSE IF b.levantou
           THEN [db |-> b.db, cache |-> b.cache, ret |-> <<>>, levantou |-> TRUE,
                 log |-> Append(b.log, Chamada(fn, arg, FALSE, TRUE, TRUE, TRUE,
                                               <<>>, w, t))]
           ELSE [db |-> b.db, cache |-> Guardar(b.cache, k, t, b.ret), ret |-> b.ret,
                 levantou |-> FALSE,
                 log |-> Append(b.log, Chamada(fn, arg, FALSE, TRUE, FALSE, FALSE,
                                               b.ret, w, t))]

ColunasTabela == <<"Object ID", "Department", "Culture", "Title">>

\* lines 173-178: PRAGMA table_info gives no row when the table is missing
\* and raises when the file is not a database
colunas_corpo(w) ==
    LET d1 == conectar(w.db) IN
      IF d1.bytes > 0 /\ d1.bytes < NBlocos
      THEN [db |-> d1, cache |-> w.cache, log |-> w.log, ret |-> <<>>, levantou |-> TRUE]
      ELSE [db |-> d1, cache |-> w.cache, log |-> w.log, levantou |-> FALSE,
            ret |-> IF Legivel(d1) THEN ColunasTabela ELSE <<>>]

\* lines 171-178
obter_colunas(w, t) == Cacheada(w, "obter_colunas", "", t, colunas_corpo(w))

\* lines 183-188: the SELECT DISTINCT raises unless the table can be read
valores_corpo(w, coluna) ==
    LET d1 == conectar(w.db) IN
      IF Legivel(d1)
      THEN [db |-> d1, cache |-> w.cache, log |-> w.log, levantou |-> FALSE,
            ret |-> <<coluna, "a">>]
      ELSE [db |-> d1, cache |-> w.cache, log |-> w.log, ret |-> <<>>, levantou |-> TRUE]

\* lines 181-188
obter_valores_unicos(w, coluna, t) ==
    Cacheada(w, "obter_valores_unicos", coluna, t, valores_corpo(w, coluna))

\* lines 193-231: SELECT COUNT(*) of line 217 is outside any try
schema_corpo(w) ==
    LET d1 == conectar(w.db) IN
      IF Legivel(d1)
      THEN [db |-> d1, cache |-> w.cache, log |-> w.log, levantou |-> FALSE,
            ret |-> <<"Tabela: metobjects">>]
      ELSE [db |-> d1, cache |-> w.cache, log |-> w.log, ret |-> <<>>, levantou |-> TRUE]

\* lines 191-231
obter_schema_info(w, t) == Cacheada(w, "obter_schema_info", "", t, schema_corpo(w))

\* lines 236-258: the five executar_consulta calls in order; .iloc[0, 0]
\* raises IndexError on a table without rows
RECURSIVE estat_corpo(_, _, _, _)
estat_corpo(w, i, acc, t) ==
    IF i > Len(ConsultasEstat)
    THEN [db |-> w.db, cache |-> w.cache, log |-> w.log, ret |-> acc, levantou |-> FALSE]
    ELSE LET r == executar_consulta(w, ConsultasEstat[i], t) IN
           IF Len(r.ret.linhas) = 0
           THEN [db |-> r.db, cache |-> r.cache, log |-> r.log, ret |-> <<>>,
                 levantou |-> TRUE]
           ELSE estat_corpo(r, i + 1, Append(acc, r.ret.linhas[1][1]), t)

\* lines 234-258
obter_estatisticas(w, t) ==
    Cacheada(w, "obter_estatisticas", "", t, estat_corpo(w, 1, <<>>, t))

\* executar_consulta for each text of qs in turn
RECURSIVE executar_varias(_, _, _)
executar_varias(w, qs, t) ==
    IF qs = <<>> THEN w
    ELSE executar_varias(executar_consulta(w, Head(qs), t), Tail(qs), t)

----------------------------------------------------------------------------
(* main(), lines 786-1094: one call per run *)

Mundo0 == [db |-> db, cache |-> cache, log |-> <<>>]

\* the time of the database read behind the table a call of
\* executar_consulta returned: the time of the call when the query ran, the
\* time the entry was stored when the table came from the cache
LidoEm(c) == IF c.acerto THEN c.criadoAntes ELSE c.em

\* the smallest element of a non-empty set of numbers
Menor(S) == CHOOSE x \in S : \A y \in S : x <= y

\* the position in the log of a call of obter_estatisticas whose body ran
\* and returned, 0 when there is none
EstatComputada(log) ==
    IF \E j \in DOMAIN log : log[j].fn = "obter_estatisticas" /\ log[j].executou
                               /\ ~log[j].levantou
    THEN CHOOSE j \in DOMAIN log : log[j].fn = "obter_estatisticas"
    ELSE 0

\* lines 234-258: the oldest database read behind the statistics after the
\* calls of log.  obter_estatisticas is the first call of main() (line
\* 800), so the calls logged before it are those its body made; a run that
\* does not compute the statistics leaves the value of the entry, and the
\* reads behind it, as they were.
LidoDepois(log, antes) ==
    LET j == EstatComputada(log) IN
      IF j = 0 THEN antes
      ELSE Menor({LidoEm(log[i]) : i \in 1..(j - 1)})

\* lines 800-803: obter_estatisticas, then os.path.getsize(DB_PATH)
main_inicio(w, t) ==
    LET r == obter_estatisticas(w, t) IN
      IF ~r.levantou /\ ~r.db.existe THEN [r EXCEPT !.levantou = TRUE] ELSE r

\* what the callers of executar_consulta do with the table they get
\* (lines 620-632, 768-781): only len(df) is looked at
Mostrar(df) == IF Len(df.linhas) > 0 THEN "tabela" ELSE "sem_resultados"

\* the end of main(): the new state of the run.  erro = an exception reached
\* the except clause of line 1090.
FimMain(w, pagina, botao, erro, mostrado, ses, rr) ==
    /\ \E f \in {w} :
         /\ lidoEstat' = LidoDepois(f.log, lidoEstat)
         /\ db' = f.db
         /\ cache' = f.cache
         /\ ev' = [op |-> "main", pagina |-> pagina, botao |-> botao, erro |-> erro,
                   mostrado |-> mostrado, chamadas |-> f.log]
    /\ sessao' = ses
    /\ rerun' = rr
    /\ pc' = "ocioso"
    /\ UNCHANGED <<gzExiste, proc, registros, pendentes, now, retExtrator>>

\* lines 578-634: executar_sql_personalizado.  q = "" is the empty editor.
executar_sql_personalizado(w, botao, q, t) ==
    IF ~botao THEN [w |-> w, mostrado |-> "nada"]
    ELSE IF q = "" THEN [w |-> w, mostrado |-> "digite"]
    ELSE LET r == executar_consulta(w, q, t) IN
           [w |-> r, mostrado |-> Mostrar(r.ret)]

PaginaConsultaSQL ==
    /\ UNCHANGED varsConc
    /\ UNCHANGED pressionada
    /\ proc = "vivo"
    /\ pc = "main"
    /\ ~rerun
    /\ \E botao \in BOOLEAN, q \in ConsultasUsuario \cup {""} :
         LET s == main_inicio(Mundo0, now) IN
           IF s.levantou
           THEN FimMain(s, "Consulta SQL", botao, TRUE, "nada", sessao, FALSE)
           ELSE LET r == executar_sql_personalizado(s, botao, q, now) IN
                  FimMain(r.w, "Consulta SQL", botao, FALSE, r.mostrado, sessao, FALSE)

\* lines 352-418: filtrar_objetos with no filter chosen
filtrar_objetos(w, t) ==
    LET c == obter_colunas(w, t) IN
      IF c.levantou THEN c
      ELSE LET v1 == obter_valores_unicos(c, "Department", t) IN
             IF v1.levantou THEN v1
             ELSE LET v2 == obter_valores_unicos(v1, "Culture", t) IN
                    IF v2.levantou THEN v2
                    ELSE executar_consulta(v2, "Q_filtro", t)

PaginaFiltrar ==
    /\ UNCHANGED varsConc
    /\ UNCHANGED pressionada
    /\ proc = "vivo"
    /\ pc = "main"
    /\ ~rerun
    /\ LET s == main_inicio(Mundo0, now) IN
         IF s.levantou
         THEN FimMain(s, "Filtrar Objetos", FALSE, TRUE, "nada", sessao, FALSE)
         ELSE LET r == filtrar_objetos(s, now) IN
                IF r.levantou
                THEN FimMain(r, "Filtrar Objetos", FALSE, TRUE, "nada", sessao, FALSE)
                ELSE FimMain(r, "Filtrar Objetos", FALSE, FALSE, Mostrar(r.ret), sessao,
                             FALSE)

\* lines 680-692: the query text taken from the answer of the model
ConsultaDaResposta(resposta) ==
    CASE resposta = "sql_ia" -> "Q_ia"
      [] resposta = "sql_ia_erro" -> "Q_ia_erro"
      [] OTHER -> ""

\* consultar_ia_botao without the clearing of lines 694 and 698
consultar_ia_botao_sem_limpar(w, ses, pergunta, resposta, t) ==
    IF pergunta = ""
    THEN [w |-> w, ses |-> ses, levantou |-> FALSE, gerou |-> FALSE]
    ELSE LET sc == obter_schema_info(w, t) IN
           IF sc.levantou \/ resposta = "None"
           THEN [w |-> sc, ses |-> ses, levantou |-> TRUE, gerou |-> FALSE]
           ELSE IF ConsultaDaResposta(resposta) # ""
                THEN [w |-> sc, levantou |-> FALSE, gerou |-> TRUE,
                      ses |-> [consulta_sql_gerada |-> ConsultaDaResposta(resposta),
                               resposta_texto |-> ses.resposta_texto,
                               mostrar_resultados |-> FALSE]]
                ELSE [w |-> sc, levantou |-> FALSE, gerou |-> TRUE,
                      ses |-> [consulta_sql_gerada |-> ses.consulta_sql_gerada,
                               resposta_texto |-> resposta,
                               mostrar_resultados |-> FALSE]]

\* consultar_ia_botao without the reset of line 700
consultar_ia_botao_sem_reset(w, ses, pergunta, resposta, t) ==
    IF pergunta = ""
    THEN [w |-> w, ses |-> ses, levantou |-> FALSE, gerou |-> FALSE]
    ELSE LET sc == obter_schema_info(w, t) IN
           IF sc.levantou \/ resposta = "None"
           THEN [w |-> sc, ses |-> ses, levantou |-> TRUE, gerou |-> FALSE]
           ELSE IF ConsultaDaResposta(resposta) # ""
                THEN [w |-> sc, levantou |-> FALSE, gerou |-> TRUE,
                      ses |-> [consulta_sql_gerada |-> ConsultaDaResposta(resposta),
                               resposta_texto |-> "",
                               mostrar_resultados |-> ses.mostrar_resultados]]
                ELSE [w |-> sc, levantou |-> FALSE, gerou |-> TRUE,
                      ses |-> [consulta_sql_gerada |-> "",
                               resposta_texto |-> resposta,
                               mostrar_resultados |-> ses.mostrar_resultados]]

\* lines 670-704: button "Consultar IA".  The result tells whether an
\* exception left the handler (obter_schema_info raised, or the answer was
\* None and resposta.upper() raised) and whether the answer of the
\* assistant was stored in the session (gerou).
consultar_ia_botao(w, ses, pergunta, resposta, t) ==
    IF pergunta = ""
    THEN [w |-> w, ses |-> ses, levantou |-> FALSE, gerou |-> FALSE]
    ELSE LET sc == obter_schema_info(w, t) IN
           IF sc.levantou \/ resposta = "None"
           THEN [w |-> sc, ses |-> ses, levantou |-> TRUE, gerou |-> FALSE]
           ELSE IF ConsultaDaResposta(resposta) # ""
                THEN [w |-> sc, levantou |-> FALSE, gerou |-> TRUE,
                      ses |-> [consulta_sql_gerada |-> ConsultaDaResposta(resposta),
                               resposta_texto |-> "",
                               mostrar_resultados |-> FALSE]]
                ELSE [w |-> sc, levantou |-> FALSE, gerou |-> TRUE,
                      ses |-> [consulta_sql_gerada |-> "",
                               resposta_texto |-> resposta,
                               mostrar_resultados |-> FALSE]]

\* lines 741-783: the examples expander, then the results of the generated
\* query when mostrar_resultados is set
consulta_com_ia_fim(w, ses, t) ==
    LET e == executar_varias(w, ConsultasExemplo, t) IN
      IF ses.mostrar_resultados /\ ses.consulta_sql_gerada # ""
      THEN LET r == executar_consulta(e, ses.consulta_sql_gerada, t) IN
             [w |-> r, mostrado |-> Mostrar(r.ret)]
      ELSE [w |-> e, mostrado |-> "nada"]

\* page "Consulta com IA" with button "Consultar IA" pressed
PaginaIAConsultar ==
    /\ UNCHANGED varsConc
    /\ proc = "vivo"
    /\ pc = "main"
    /\ ~rerun
    /\ \E pergunta \in {"", "pergunta"}, resposta \in RespostasIA :
         LET s == main_inicio(Mundo0, now) IN
           IF s.levantou
           THEN /\ FimMain(s, "Consulta com IA", "Consultar IA", TRUE, "nada",
                           sessao, FALSE)
                /\ UNCHANGED pressionada
           ELSE LET b == consultar_ia_botao(s, sessao, pergunta, resposta, now) IN
                  /\ pressionada' = (pressionada /\ ~b.gerou)
                  /\ IF b.levantou
                     THEN FimMain(b.w, "Consulta com IA", "Consultar IA", TRUE, "nada",
                                  b.ses, FALSE)
                     ELSE LET f == consulta_com_ia_fim(b.w, b.ses, now) IN
                            FimMain(f.w, "Consulta com IA", "Consultar IA", FALSE,
                                    f.mostrado, b.ses, FALSE)

\* page "Consulta com IA" with button "Executar Consulta SQL" pressed
\* (lines 707-714): the button is there only for a generated query;
\* st.rerun() ends the run at once and asks for another one
PaginaIAExecutar ==
    /\ UNCHANGED varsConc
    /\ proc = "vivo"
    /\ pc = "main"
    /\ ~rerun
    /\ sessao.consulta_sql_gerada # ""
    /\ LET s == main_inicio(Mundo0, now) IN
         IF s.levantou
         THEN /\ FimMain(s, "Consulta com IA", "Executar Consulta SQL", TRUE, "nada",
                         sessao, FALSE)
              /\ UNCHANGED pressionada
         ELSE /\ FimMain(s, "Consulta com IA", "Executar Consulta SQL", FALSE, "nada",
                         [sessao EXCEPT !.mostrar_resultados = TRUE], TRUE)
              /\ pressionada' = TRUE

\* page "Consulta com IA" with no button pressed: a plain render, or the run
\* asked for by st.rerun()
PaginaIARender ==
    /\ UNCHANGED varsConc
    /\ UNCHANGED pressionada
    /\ proc = "vivo"
    /\ pc = "main"
    /\ LET s == main_inicio(Mundo0, now) IN
         IF s.levantou
         THEN FimMain(s, "Consulta com IA", "nenhum", TRUE, "nada", sessao, FALSE)
         ELSE LET f == consulta_com_ia_fim(s, sessao, now) IN
                FimMain(f.w, "Consulta com IA", "nenhum", FALSE, f.mostrado, sessao, FALSE)

----------------------------------------------------------------------------

Next ==
    \/ IniciarExecucao
    \/ DescompactarInicio
    \/ AbrirDestino
    \/ CopiarBloco
    \/ FimCopia
    \/ FalhaExtracao
    \/ VerificarDB
    \/ PaginaConsultaSQL
    \/ PaginaFiltrar
    \/ PaginaIAConsultar
    \/ PaginaIAExecutar
    \/ PaginaIARender
    \/ Encerrar
    \/ AtexitExcluir
    \/ FimProcesso
    \/ Matar
    \/ Reiniciar
    \/ Tick

Spec == Init /\ [][Next]_vars

(***************************************************************************)
(* Script runs of concurrent sessions, lines 145-156.  Every session runs  *)
(* the module-level code in its own thread; the steps of different         *)
(* sessions interleave at the file operations.  The cache is shared by the *)
(* sessions of the process.  After line 156 a run shows page Consulta SQL. *)
(***************************************************************************)

\* The variables of the single-session steps, which these steps leave alone
varsSeq == <<proc, pc, pendentes, sessao, rerun, retExtrator, pressionada>>

\* The queries typed in the sessions whose runs overlap
ConsultasConc == {"Q_select"}

\* The file as DB_PATH shows it when blocks bs hold data and the file
\* reaches up to block n
Arquivo(bs, n) == [existe |-> TRUE, bytes |-> n, tabela |-> (bs = Blocos)]

\* line 146: atexit.register(excluir_database) at the start of a session's run
SIniciar(s) ==
    /\ pcS[s] = "ocioso"
    /\ registros < MaxRegistros
    /\ registros' = registros + 1
    /\ pcS' = [pcS EXCEPT ![s] = "descompactar"]
    /\ UNCHANGED <<gzExiste, db, posS, escritos, copias>>
    /\ UNCHANGED <<now, cache, ev, lidoEstat>>
    /\ UNCHANGED varsSeq

\* lines 48-50, 57-66 and 149-150: the two existence tests, read by this
\* thread at this moment
SDescompactar(s) ==
    /\ pcS[s] = "descompactar"
    /\ LET r == descompactar_teste(gzExiste, db) IN
         pcS' = [pcS EXCEPT ![s] =
                   CASE r = "False" -> apos_extrator(FALSE)
                     [] r = "True" -> apos_extrator(TRUE)
                     [] OTHER -> "abrir"]
    /\ UNCHANGED <<gzExiste, db, registros, posS, escritos, copias>>
    /\ UNCHANGED <<now, cache, ev, lidoEstat>>
    /\ UNCHANGED varsSeq

\* lines 53-54: open(DB_PATH, 'wb') creates the file or truncates the one
\* another thread is writing; this thread writes from offset 0
SAbrir(s) ==
    /\ pcS[s] = "abrir"
    /\ pcS' = [pcS EXCEPT ![s] = "copiando"]
    /\ posS' = [posS EXCEPT ![s] = 0]
    /\ escritos' = {}
    /\ db' = DbRecemAberto
    /\ copias' = copias + 1
    /\ UNCHANGED <<gzExiste, registros>>
    /\ UNCHANGED <<now, cache, ev, lidoEstat>>
    /\ UNCHANGED varsSeq

\* line 55: shutil.copyfileobj writes this thread's next block at this
\* thread's own offset
SCopiar(s) ==
    /\ pcS[s] = "copiando"
    /\ posS[s] < NBlocos
    /\ posS' = [posS EXCEPT ![s] = @ + 1]
    /\ escritos' = escritos \cup {posS[s]}
    /\ db' = Arquivo(escritos',
                     IF db.bytes > posS[s] + 1 THEN db.bytes ELSE posS[s] + 1)
    /\ UNCHANGED <<gzExiste, registros, pcS, copias>>
    /\ UNCHANGED <<now, cache, ev, lidoEstat>>
    /\ UNCHANGED varsSeq

\* lines 56-57: this thread's copy is finished, return True
SFimCopia(s) ==
    /\ pcS[s] = "copiando"
    /\ posS[s] = NBlocos
    /\ pcS' = [pcS EXCEPT ![s] = apos_extrator(TRUE)]
    /\ posS' = [posS EXCEPT ![s] = 0]
    /\ UNCHANGED <<gzExiste, db, registros, escritos, copias>>
    /\ UNCHANGED <<now, cache, ev, lidoEstat>>
    /\ UNCHANGED varsSeq

\* lines 67-69: gzip.open, open or copyfileobj raised in this thread
SFalha(s) ==
    /\ pcS[s] \in {"abrir", "copiando"}
    /\ pcS' = [pcS EXCEPT ![s] = apos_extrator(FALSE)]
    /\ posS' = [posS EXCEPT ![s] = 0]
    /\ UNCHANGED <<gzExiste, db, registros, escritos, copias>>
    /\ UNCHANGED <<now, cache, ev, lidoEstat>>
    /\ UNCHANGED varsSeq

\* lines 153-156: st.stop() when DB_PATH is missing at this moment
SVerificar(s) ==
    /\ pcS[s] = "verificar"
    /\ pcS' = [pcS EXCEPT ![s] = IF db.existe THEN "main" ELSE "ocioso"]
    /\ UNCHANGED <<gzExiste, db, registros, posS, escritos, copias>>
    /\ UNCHANGED <<now, cache, ev, lidoEstat>>
    /\ UNCHANGED varsSeq

\* lines 1087-1094, 786-803 and 578-634: main() of this session's run on
\* page Consulta SQL, against the file as it is at this moment
SMain(s) ==
    /\ pcS[s] = "main"
    /\ pcS' = [pcS EXCEPT ![s] = "ocioso"]
    /\ \E botao \in BOOLEAN, q \in ConsultasConc :
         \E s0 \in {main_inicio(Mundo0, now)} :
           \E r \in {IF s0.levantou
                      THEN [w |-> s0, mostrado |-> "nada"]
                      ELSE executar_sql_personalizado(s0, botao, q, now)} :
             /\ db' = r.w.db
             /\ cache' = r.w.cache
             /\ lidoEstat' = LidoDepois(r.w.log, lidoEstat)
             /\ ev' = [op |-> "main", pagina |-> "Consulta SQL", botao |-> botao,
                       erro |-> s0.levantou, mostrado |-> r.mostrado,
                       chamadas |-> r.w.log]
    /\ UNCHANGED <<gzExiste, registros, now, posS, escritos, copias>>
    /\ UNCHANGED varsSeq

\* time passes, whatever the sessions are doing
STick ==
    /\ \E d \in PassosRelogio :
         /\ now + d <= MaxNowConc
         /\ now' = now + d
    /\ UNCHANGED <<gzExiste, db, registros, cache, ev, lidoEstat>>
    /\ UNCHANGED varsConc
    /\ UNCHANGED varsSeq

NextConc ==
    \/ \E s \in Sessoes :
          \/ SIniciar(s)
          \/ SDescompactar(s)
          \/ SAbrir(s)
          \/ SCopiar(s)
          \/ SFimCopia(s)
          \/ SFalha(s)
          \/ SVerificar(s)
          \/ SMain(s)
    \/ STick

SpecConc == Init /\ [][NextConc]_vars

(***************************************************************************)
(* One browser session working on a complete working copy for as many      *)
(* script runs as it likes: the process is neither stopped nor killed.     *)
(***************************************************************************)

\* the archive and a complete working copy are in place
InitSessao ==
    /\ Init
    /\ gzExiste
    /\ db = DbCompleto

\* line 146: atexit.register(excluir_database) at the start of one more run.
\* The number of registrations is counted up to MaxRegistros only; no exit
\* hook runs in this specification.
NovaExecucao ==
    /\ UNCHANGED varsConc
    /\ UNCHANGED <<pressionada, lidoEstat>>
    /\ proc = "vivo"
    /\ pc = "ocioso"
    /\ registros' = (IF registros < MaxRegistros THEN registros + 1 ELSE registros)
    /\ pc' = "descompactar"
    /\ retExtrator' = "nenhum"
    /\ ev' = [op |-> "atexit.register"]
    /\ UNCHANGED <<gzExiste, db, proc, pendentes, now, cache, sessao, rerun>>

NextSessao ==
    \/ NovaExecucao
    \/ DescompactarInicio
    \/ VerificarDB
    \/ PaginaIAConsultar
    \/ PaginaIAExecutar
    \/ PaginaIARender
    \/ Tick

SpecSessao == InitSessao /\ [][NextSessao]_vars

(***************************************************************************)
(* One browser session on page Consulta SQL, with a clock of one second    *)
(* and a statistics computation that takes time: the five queries of       *)
(* obter_estatisticas run one after the other, and st.cache_data stamps    *)
(* the entry of obter_estatisticas when the body has returned.             *)
(***************************************************************************)

\* how long the body of obter_estatisticas may take
Demoras == 0..MaxDemora

\* the pauses of the user between two runs
PassosEstat == {TTL_CONSULTA - 1, TTL_CONSULTA}

\* lines 234-258 behind st.cache_data(ttl=3600), the body taking d seconds:
\* the entry is looked up at t, the first query is made at t, the other
\* four at t + d, and the value is stored at t + d.  fim is the time at
\* which the call returns.
obter_estatisticas_demorado(w, t, d) ==
    LET fn == "obter_estatisticas"
        k == <<fn, "">> IN
      IF Vivo(w.cache, k, t)
      THEN [db |-> w.db, cache |-> w.cache, ret |-> w.cache[k].valor,
            levantou |-> FALSE, fim |-> t,
            log |-> Append(w.log, Chamada(fn, "", TRUE, FALSE, FALSE, FALSE,
                                          w.cache[k].valor, w, t))]
      ELSE LET r1 == executar_consulta(w, ConsultasEstat[1], t)
               b == IF Len(r1.ret.linhas) = 0
                    THEN [db |-> r1.db, cache |-> r1.cache, log |-> r1.log,
                          ret |-> <<>>, levantou |-> TRUE]
                    ELSE estat_corpo(r1, 2, <<r1.ret.linhas[1][1]>>, t + d) IN
             IF b.levantou
             THEN [db |-> b.db, cache |-> b.cache, ret |-> <<>>, levantou |-> TRUE,
                   fim |-> t + d,
                   log |-> Append(b.log, Chamada(fn, "", FALSE, TRUE, TRUE, TRUE,
                                                 <<>>, w, t))]
             ELSE [db |-> b.db, cache |-> Guardar(b.cache, k, t + d, b.ret),
                   ret |-> b.ret, levantou |-> FALSE, fim |-> t + d,
                   log |-> Append(b.log, Chamada(fn, "", FALSE, TRUE, FALSE, FALSE,
                                                 b.ret, w, t))]

\* lines 1087-1094, 786-803 and 578-634: main() on page Consulta SQL, the
\* user having typed the text of the first query of obter_estatisticas
PaginaConsultaSQLDemorada ==
    /\ UNCHANGED varsConc
    /\ UNCHANGED pressionada
    /\ proc = "vivo"
    /\ pc = "main"
    /\ ~rerun
    /\ \E botao \in BOOLEAN, d \in Demoras :
         \E s \in {obter_estatisticas_demorado(Mundo0, now, d)} :
           \E r \in {IF s.levantou
                      THEN [w |-> s, mostrado |-> "nada"]
                      ELSE executar_sql_personalizado(s, botao, ConsultasEstat[1],
                                                      s.fim)} :
             /\ s.fim <= MaxNowEstat
             /\ now' = s.fim
             /\ db' = r.w.db
             /\ cache' = r.w.cache
             /\ lidoEstat' = LidoDepois(r.w.log, lidoEstat)
             /\ ev' = [op |-> "main", pagina |-> "Consulta SQL", botao |-> botao,
                       erro |-> s.levantou, mostrado |-> r.mostrado,
                       chamadas |-> r.w.log]
    /\ pc' = "ocioso"
    /\ UNCHANGED <<gzExiste, proc, registros, pendentes, sessao, rerun, retExtrator>>

\* the user waits before the next interaction
TickEstat ==
    /\ UNCHANGED varsConc
    /\ UNCHANGED <<pressionada, lidoEstat>>
    /\ proc = "vivo"
    /\ pc = "ocioso"
    /\ \E d \in PassosEstat :
         /\ now + d <= MaxNowEstat
         /\ now' = now + d
    /\ ev' = [op |-> "tick"]
    /\ UNCHANGED <<gzExiste, db, proc, pc, registros, pendentes, cache, sessao, rerun,
                   retExtrator>>

NextEstat ==
    \/ NovaExecucao
    \/ DescompactarInicio
    \/ VerificarDB
    \/ PaginaConsultaSQLDemorada
    \/ TickEstat

SpecEstat == InitSessao /\ [][NextEstat]_vars

(***************************************************************************)
(* The life of one process that starts without a working copy and ends by  *)
(* a normal exit.  The interpreter runs every registered exit function and *)
(* then ends the process, which is what the fairness conditions say.       *)
(***************************************************************************)

\* no working copy yet
InitCiclo ==
    /\ Init
    /\ db = DbAusente

NextCiclo ==
    \/ IniciarExecucao
    \/ DescompactarInicio
    \/ AbrirDestino
    \/ CopiarBloco
    \/ FimCopia
    \/ FalhaExtracao
    \/ VerificarDB
    \/ PaginaFiltrar
    \/ Tick
    \/ Encerrar
    \/ AtexitExcluir
    \/ FimProcesso

SpecCiclo ==
    /\ InitCiclo
    /\ [][NextCiclo]_vars
    /\ WF_vars(AtexitExcluir)
    /\ WF_vars(FimProcesso)

(***************************************************************************)
(* One browser session on page Busca por ID, whose two queries are ordered *)
(* by RANDOM(): what the engine returns for them is a draw.                *)
(***************************************************************************)

\* the Object IDs the engine may draw
Sorteios == {"1", "2"}

\* line 422: the text of the query of visualizar_objeto for an Object ID
ConsultaObjeto(id) == IF id = "1" THEN "Q_objeto_1" ELSE "Q_objeto_2"

\* the rows the engine returns for a query ordered by RANDOM() when its
\* draw is z: the drawn Object ID (lines 1052-1058), or the list of examples
\* that begins with it (lines 1066-1073)
ResultadoAleatorio(q, z) ==
    IF q = "Q_aleatorio"
    THEN [colunas |-> <<"Object ID">>, linhas |-> << <<z>> >>]
    ELSE [colunas |-> <<"Object ID", "Object Name", "Title", "Artist Display Name">>,
          linhas |-> << <<z, "n", "t", "a">> >>]

\* lines 161-168 for a text ordered by RANDOM(), z being the draw
consulta_corpo_sorteio(d, q, z) ==
    LET r == consulta_corpo(d, q) IN
      IF r.falhou THEN r ELSE [r EXCEPT !.df = ResultadoAleatorio(q, z)]

\* executar_consulta_sorteio without the decorator of line 159
executar_consulta_sorteio_sem_cache(w, q, t, z) ==
    LET k == <<"executar_consulta", q>>
        r == consulta_corpo_sorteio(w.db, q, z) IN
      [db |-> r.db, cache |-> Guardar(w.cache, k, t, r.df), ret |-> r.df,
       levantou |-> FALSE,
       log |-> Append(w.log, Chamada(k[1], q, FALSE, TRUE, r.falhou, FALSE, r.df, w, t))]

\* lines 159-168: executar_consulta, behind st.cache_data(ttl=3600), for a
\* text ordered by RANDOM(): the draw is made only when the query runs
executar_consulta_sorteio(w, q, t, z) ==
    LET k == <<"executar_consulta", q>> IN
      IF Vivo(w.cache, k, t)
      THEN [db |-> w.db, cache |-> w.cache, ret |-> w.cache[k].valor, levantou |-> FALSE,
            log |-> Append(w.log, Chamada(k[1], q, TRUE, FALSE, FALSE, FALSE,
                                          w.cache[k].valor, w, t))]
      ELSE LET r == consulta_corpo_sorteio(w.db, q, z) IN
             [db |-> r.db, cache |-> Guardar(w.cache, k, t, r.df), ret |-> r.df,
              levantou |-> FALSE,
              log |-> Append(w.log, Chamada(k[1], q, FALSE, TRUE, r.falhou, FALSE,
                                            r.df, w, t))]

\* lines 421-427: visualizar_objeto up to the test of the result; objeto is
\* the Object ID whose record is shown, "nenhum" when none is found
visualizar_objeto(w, id, t) ==
    LET r == executar_consulta(w, ConsultaObjeto(id), t) IN
      [w |-> r, objeto |-> IF Len(r.ret.linhas) = 0 THEN "nenhum" ELSE id]

\* lines 1040-1061: the two buttons of the left column.  id is the text
\* typed in the input, z the draw of the engine.
busca_botoes(w, botao, id, z, t) ==
    CASE botao = "Buscar" ->
           IF id = "" THEN [w |-> w, objeto |-> "nenhum"]
           ELSE visualizar_objeto(w, id, t)
      [] botao = "Objeto Aleatório" ->
           LET r == executar_consulta_sorteio(w, "Q_aleatorio", t, z) IN
             IF Len(r.ret.linhas) > 0
             THEN visualizar_objeto(r, r.ret.linhas[1][1], t)
             ELSE [w |-> r, objeto |-> "nenhum"]
      [] OTHER -> [w |-> w, objeto |-> "nenhum"]

\* page "Busca por ID" (lines 1035-1076): the buttons, then the list of
\* examples of the right column
PaginaBuscaID ==
    /\ UNCHANGED varsConc
    /\ UNCHANGED pressionada
    /\ proc = "vivo"
    /\ pc = "main"
    /\ ~rerun
    /\ \E botao \in {"nenhum", "Buscar", "Objeto Aleatório"}, id \in Sorteios \cup {""},
          z1 \in Sorteios, z2 \in Sorteios :
         \E s \in {main_inicio(Mundo0, now)} :
           IF s.levantou
           THEN FimMain(s, "Busca por ID", botao, TRUE, "nada", sessao, FALSE)
           ELSE \E b \in {busca_botoes(s, botao, id, z1, now)} :
                  \E e \in {executar_consulta_sorteio(b.w, "Q_exemplos", now, z2)} :
                    FimMain(e, "Busca por ID", botao, FALSE,
                            [objeto |-> b.objeto, exemplos |-> e.ret], sessao, FALSE)

NextBusca ==
    \/ NovaExecucao
    \/ DescompactarInicio
    \/ VerificarDB
    \/ PaginaBuscaID
    \/ Tick

SpecBusca == InitSessao /\ [][NextBusca]_vars






----------------------------------------------------------------------------
(* Properties *)

\* the cached calls made by the last step
Chamadas == IF ev.op = "main" THEN ev.chamadas ELSE <<>>

\* the last step was a descompactar_database step of a call that found the
\* working copy in place
ExtratorComCopia == ev.op = "descompactar_database" /\ ev.dbAntes.existe

\* C1 as stated: whenever the working copy already exists, a call of
\* descompactar_database returns True at once and leaves the working copy as
\* it found it, in every run.
C1_CopiaExistenteSucesso ==
    ExtratorComCopia => (ev.retornou /\ ev.ret = TRUE /\ db = ev.dbAntes)

\* C1 amended: whenever the working copy and the archive both exist, a call
\* of descompactar_database returns True at once and leaves the working copy
\* as it found it, in every run; when the archive is missing the call returns
\* False at once, the working copy still being left as it was.
C1_CopiaExistenteComArquivo ==
    ExtratorComCopia => (ev.retornou /\ ev.ret = ev.gzAntes /\ db = ev.dbAntes)

\* a second run of the script found the working copy and returned True
C1_Witness ==
    /\ ExtratorComCopia
    /\ ev.ret = TRUE
    /\ registros >= 2
    /\ db = DbCompleto

\* C4: a failed extraction is reported and stops the run: no query is
\* executed in a run whose descompactar_database call did not return True,
\* nor while the working copy is absent.
C4_SemConsultaSemCopia ==
    /\ (ev.op = "descompactar_database" /\ ev.retornou /\ ev.ret = FALSE)
          => (pc = "ocioso" /\ ev.msg # "" /\ retExtrator = "False")
    /\ pc = "main" => (retExtrator = "True" /\ db.existe)
    /\ \A i \in DOMAIN Chamadas :
          Chamadas[i].executou => (retExtrator = "True" /\ Chamadas[i].dbAntes.existe)

\* the run was stopped after a failed extraction that left a file behind
C4_Witness ==
    /\ ev.op = "descompactar_database"
    /\ ev.retornou
    /\ ev.msg = "erro_preparar"
    /\ pc = "ocioso"
    /\ db.existe

\* C5: a partially written working copy is never taken for a complete one:
\* no descompactar_database call returns True, and no query is executed,
\* while the file at DB_PATH holds truncated content.
C5_SemCopiaTruncada ==
    /\ (ev.op = "descompactar_database" /\ ev.retornou /\ ev.ret = TRUE) => ~Truncado(db)
    /\ \A i \in DOMAIN Chamadas : Chamadas[i].executou => ~Truncado(Chamadas[i].dbAntes)

\* C6: without the archive, descompactar_database returns the
\* archive-not-found failure at once and DB_PATH is as it was before.
C6_ArquivoAusente ==
    (ev.op = "descompactar_database" /\ ~ev.gzAntes)
        => (ev.retornou /\ ev.ret = FALSE /\ ev.msg = "nao_encontrado" /\ db = ev.dbAntes)

\* the call failed for want of the archive and there is still no working copy
C6_Witness ==
    /\ ev.op = "descompactar_database"
    /\ ~ev.gzAntes
    /\ ev.ret = FALSE
    /\ ~db.existe

\* C7: excluir_database never raises, however many times the exit machinery
\* calls it; the working copy is absent after an invocation whose deletion
\* succeeded, and an invocation that finds no working copy changes nothing.
C7_LimpezaIdempotente ==
    ev.op = "excluir_database" =>
        /\ ~ev.levantou
        /\ ev.resultado = "excluido" => (ev.dbAntes.existe /\ ~db.existe)
        /\ ev.resultado = "erro_registrado" => db = ev.dbAntes
        /\ ~ev.dbAntes.existe => (ev.resultado = "nada" /\ db = ev.dbAntes)

\* a later registration of the hook ran after the working copy of this
\* process had been deleted by an earlier one
C7_Witness ==
    /\ ev.op = "excluir_database"
    /\ ev.resultado = "nada"
    /\ retExtrator = "True"
    /\ registros >= 2
    /\ pendentes < registros - 1

\* the entry a call found was still within the ttl of its function
VivaNaChamada(c, ttl) == c.criadoAntes >= 0 /\ c.em - c.criadoAntes < ttl

\* C2: a call of executar_consulta made while a live entry for its text
\* exists does not run the query and returns the stored table, which is the
\* table the call that stored it returned (same columns, same rows in the
\* same order), whatever has happened to the database since.
C2_AcertoDevolveGuardado ==
    \A i \in DOMAIN Chamadas :
        LET c == Chamadas[i]
            k == <<c.fn, c.arg>> IN
          c.fn = "executar_consulta" =>
            /\ k \in DOMAIN cache
            /\ cache[k].valor = c.ret
            /\ VivaNaChamada(c, 3600) =>
                  (~c.executou /\ c.acerto /\ cache[k].criado = c.criadoAntes)

\* a call was served from the cache with the rows of a table that had been
\* dropped since they were read
C2_Witness ==
    \E i \in DOMAIN Chamadas :
        /\ Chamadas[i].fn = "executar_consulta"
        /\ Chamadas[i].acerto
        /\ ~Chamadas[i].executou
        /\ Len(Chamadas[i].ret.linhas) >= 2
        /\ ~Legivel(Chamadas[i].dbAntes)

\* C3: an entry is live exactly while now - created_at < ttl (7200 s for
\* obter_schema_info, 3600 s for the other cached functions): a call that
\* finds a live entry does not run the body, and a call that finds an entry
\* at or past its ttl runs the body and stores a new entry stamped with the
\* current time.
C3_VivoEnquantoTTL ==
    \A i \in DOMAIN Chamadas :
        LET c == Chamadas[i]
            k == <<c.fn, c.arg>>
            ttl == IF c.fn = "obter_schema_info" THEN 7200 ELSE 3600 IN
          /\ VivaNaChamada(c, ttl) => (~c.executou /\ cache[k].criado = c.criadoAntes)
          /\ (c.criadoAntes >= 0 /\ ~VivaNaChamada(c, ttl)) =>
                (c.executou /\ cache[k].criado = c.em)

\* C8: a query that fails inside executar_consulta reaches the caller as an
\* error, so that the caller can tell it from a query that ran and matched
\* no row.
C8_ErroDevolvido ==
    \A i \in DOMAIN Chamadas :
        (Chamadas[i].fn = "executar_consulta" /\ Chamadas[i].falhou) =>
            /\ Chamadas[i].levantou
            /\ Mostrar(Chamadas[i].ret) # Mostrar(Resultado("Q_vazio"))

\* C9: a failing executar_consulta call for text q leaves the working copy,
\* the session state and every cache entry for another text as they were
\* (stated for the steps in which the failing query is the only computation
\* that ran).
C9_FalhaIsolada ==
    [][(ev'.op = "main" /\
        \E i \in DOMAIN ev'.chamadas :
            /\ ev'.chamadas[i].fn = "executar_consulta"
            /\ ev'.chamadas[i].falhou
            /\ \A j \in DOMAIN ev'.chamadas : j # i => ~ev'.chamadas[j].executou)
       => /\ db' = db
          /\ sessao' = sessao
          /\ \A k \in DOMAIN cache :
                (\A i \in DOMAIN ev'.chamadas :
                     ev'.chamadas[i].executou => k # <<"executar_consulta", ev'.chamadas[i].arg>>)
                => (k \in DOMAIN cache' /\ cache'[k] = cache[k])]_vars

\* C10: query execution never creates or writes the file at DB_PATH: no
\* step of main() changes the working copy, and a query run while the
\* working copy is absent raises a not-ready error and leaves it absent.
C10_ConsultaNaoEscreve ==
    [][ev'.op = "main" =>
          /\ db' = db
          /\ \A i \in DOMAIN ev'.chamadas :
                (ev'.chamadas[i].executou /\ ~ev'.chamadas[i].dbAntes.existe)
                    => (ev'.chamadas[i].levantou /\ ~db'.existe)]_vars

\* C11: every connection opened by executar_consulta, obter_colunas,
\* obter_valores_unicos or obter_schema_info is closed when the call returns
\* or fails: no call ends with a connection it opened still open.
C11_ConexoesLiberadas ==
    \A i \in DOMAIN Chamadas : Chamadas[i].abertas = 0

\* C12: over all script runs of one process, of one session or of several
\* sessions whose runs interleave, the copy into DB_PATH is started at most
\* once and no two runs have DB_PATH open for writing at the same time.
C12_UmaUnicaCopia ==
    /\ copias <= 1
    /\ Cardinality({s \in Sessoes : pcS[s] = "copiando"}) <= 1

\* C13: in excluir_database a failure of the connect-and-close step does
\* not prevent the deletion attempt, and a failed deletion ends with the
\* failure logged, no exception leaving the function and the working copy
\* left as it was.
C13_FalhaDeLimpezaRegistrada ==
    ev.op = "excluir_database" =>
        /\ ~ev.levantou
        /\ ev.dbAntes.existe => ev.tentouRemover
        /\ (ev.tentouRemover /\ db.existe) =>
               (ev.resultado = "erro_registrado" /\ db = ev.dbAntes)

\* the close step and the deletion both failed on a working copy this
\* process had prepared
C13_Witness ==
    /\ ev.op = "excluir_database"
    /\ ev.dbAntes.existe
    /\ ~ev.fechou
    /\ ev.tentouRemover
    /\ ev.resultado = "erro_registrado"
    /\ retExtrator = "True"

\* the entry for key k is not the same in the two caches
EntradaMudou(k, c1, c2) ==
    \/ (k \in DOMAIN c1) # (k \in DOMAIN c2)
    \/ (k \in DOMAIN c1 /\ k \in DOMAIN c2 /\ c1[k] # c2[k])

\* C14: in every step of a running process, the cache entry of a query text
\* changes only through a call of executar_consulta for that same text that
\* found the entry absent or expired; the entry then holds, as a whole, the
\* time and the table of that call, and no step removes an entry.
C14_EntradaSoMudaPorRecomputo ==
    [][(proc = "vivo" /\ proc' = "vivo") =>
          \A k \in (DOMAIN cache) \cup (DOMAIN cache') :
              (k[1] = "executar_consulta" /\ EntradaMudou(k, cache, cache')) =>
                  /\ ev'.op = "main"
                  /\ k \in DOMAIN cache'
                  /\ \E i \in DOMAIN ev'.chamadas :
                        LET c == ev'.chamadas[i] IN
                          /\ c.fn = "executar_consulta"
                          /\ c.arg = k[2]
                          /\ c.executou
                          /\ ~VivaNaChamada(c, 3600)
                          /\ c.criadoAntes = CriadoEm(cache, k)
                          /\ cache'[k] = [criado |-> c.em, valor |-> c.ret]]_vars

\* a call has just replaced an expired entry of its query text while the
\* entry of another query text, stored at another time, is still in the cache
C14_Witness ==
    /\ ev.op = "main"
    /\ \E i \in DOMAIN ev.chamadas :
          LET c == ev.chamadas[i] IN
            /\ c.fn = "executar_consulta"
            /\ c.executou
            /\ c.criadoAntes >= 0
            /\ cache[<<c.fn, c.arg>>].criado = c.em
            /\ \E k \in DOMAIN cache :
                  /\ k[1] = "executar_consulta"
                  /\ cache[k].criado # c.em

\* C15: a failed query is cached like a successful one: the empty table
\* that executar_consulta returns when its query raised is stored as the
\* entry of the query text, and every call for that text in the following
\* 3600 s is served from the cache, without running the query, and gets the
\* empty table, whatever the state of the database is by then.
C15_FalhaGuardada ==
    \A i \in DOMAIN Chamadas :
        LET c == Chamadas[i]
            k == <<c.fn, c.arg>> IN
          c.fn = "executar_consulta" =>
            /\ (c.executou /\ c.falhou) =>
                  /\ ~c.levantou
                  /\ c.ret = DFVazio
                  /\ k \in DOMAIN cache
                  /\ cache[k] = [criado |-> c.em, valor |-> DFVazio]
            /\ VivaNaChamada(c, 3600) =>
                  /\ c.acerto
                  /\ ~c.executou
                  /\ cache[k].criado = c.criadoAntes
                  /\ c.ret = cache[k].valor

\* a call got the empty table of an earlier failure from the cache although
\* the copy has been completed since and the query would now succeed
C15_Witness ==
    \E i \in DOMAIN Chamadas :
        LET c == Chamadas[i] IN
          /\ c.fn = "executar_consulta"
          /\ c.acerto
          /\ c.ret = DFVazio
          /\ c.em > c.criadoAntes
          /\ Tipo(c.arg) = "select"
          /\ Legivel(c.dbAntes)

\* the query texts the assistant generates
ConsultasIA == {ConsultaDaResposta(r) : r \in RespostasIA} \ {""}

\* the calls of executar_consulta for a query the assistant generated
ChamadasIA == {i \in DOMAIN Chamadas : Chamadas[i].arg \in ConsultasIA}

\* the last step stored an answer of the assistant in the session
GerouAgora ==
    /\ ev.op = "main"
    /\ ev.pagina = "Consulta com IA"
    /\ ev.botao = "Consultar IA"
    /\ ~ev.erro
    /\ \E i \in DOMAIN ev.chamadas : ev.chamadas[i].fn = "obter_schema_info"

\* C16: in the assistant panel a generated query is executed only after an
\* explicit user step for that query: a "Consultar IA" action that stores
\* an answer leaves mostrar_resultados False and runs no generated query,
\* and executar_consulta is called for a generated query only when that
\* query is the one in the session and "Executar Consulta SQL" has been
\* pressed since it was generated.
C16_ExecutaSoAposBotao ==
    /\ GerouAgora => (~sessao.mostrar_resultados /\ ChamadasIA = {})
    /\ \A i \in ChamadasIA :
          /\ pressionada
          /\ Chamadas[i].arg = sessao.consulta_sql_gerada
          /\ Chamadas[i].fn = "executar_consulta"

\* a second generated query has been executed after its own press of the
\* button; the first one had been executed after an earlier press
C16_Witness ==
    /\ ev.op = "main"
    /\ ev.pagina = "Consulta com IA"
    /\ ev.botao = "nenhum"
    /\ \E i \in ChamadasIA :
          /\ Chamadas[i].executou
          /\ \E k \in DOMAIN cache :
                /\ k[1] = "executar_consulta"
                /\ k[2] \in ConsultasIA
                /\ k[2] # Chamadas[i].arg

\* the last step was a run in which obter_estatisticas returned a value
EstatDevolvida ==
    /\ ev.op = "main"
    /\ \E i \in DOMAIN ev.chamadas :
          ev.chamadas[i].fn = "obter_estatisticas" /\ ~ev.chamadas[i].levantou

C18_GanchoAntesDaCopia ==
    /\ [][(~db.existe /\ db'.existe) => (proc = "vivo" /\ registros >= 1)]_vars
    /\ (proc = "saindo") ~>
           (\/ ~db.existe
            \/ (ev.op = "excluir_database" /\ ev.resultado = "erro_registrado"))

\* the process has exited normally and the hook has deleted the working copy
\* that this process had created
C18_Witness ==
    /\ proc = "saindo"
    /\ ev.op = "excluir_database"
    /\ ev.resultado = "excluido"
    /\ ev.dbAntes = DbCompleto
    /\ retExtrator = "True"
    /\ ~db.existe

\* C19: after any sequence of "Consultar IA" actions at most one of
\* consulta_sql_gerada and resposta_texto is non-empty (storing a query
\* clears the prose answer and storing a prose answer clears the query),
\* and a "Consultar IA" action that stores no answer, as the one with an
\* empty question, changes neither of the two.
C19_SqlOuTexto ==
    /\ [](sessao.consulta_sql_gerada = "" \/ sessao.resposta_texto = "")
    /\ [][(/\ ev'.op = "main"
           /\ ev'.pagina = "Consulta com IA"
           /\ ev'.botao = "Consultar IA"
           /\ ~GerouAgora')
          => /\ sessao'.consulta_sql_gerada = sessao.consulta_sql_gerada
             /\ sessao'.resposta_texto = sessao.resposta_texto]_vars

\* a prose answer has just been stored and has cleared the query generated
\* and executed before it
C19_Witness ==
    /\ GerouAgora
    /\ sessao.resposta_texto # ""
    /\ sessao.consulta_sql_gerada = ""
    /\ \E k \in DOMAIN cache : k[1] = "executar_consulta" /\ k[2] \in ConsultasIA

\* the cache keys of the two queries of page Busca por ID
ChaveAleatorio == <<"executar_consulta", "Q_aleatorio">>
ChaveExemplos == <<"executar_consulta", "Q_exemplos">>

\* C20: the queries ordered by RANDOM() are cached by their text alone, so
\* within the ttl they are deterministic: a press of "Objeto Aleatório" made
\* less than 3600 s after the execution that stored the entry shows the
\* Object ID that execution drew, and the list of examples shown less than
\* 3600 s after its execution is the list that execution drew, whatever the
\* engine would draw now.
C20_AleatorioFixoNoTTL ==
    [][(ev'.op = "main" /\ ev'.pagina = "Busca por ID" /\ ~ev'.erro) =>
          /\ (/\ ev'.botao = "Objeto Aleatório"
              /\ ChaveAleatorio \in DOMAIN cache
              /\ now - cache[ChaveAleatorio].criado < 3600)
             => /\ cache'[ChaveAleatorio] = cache[ChaveAleatorio]
                /\ Len(cache[ChaveAleatorio].valor.linhas) > 0
                     => ev'.mostrado.objeto = cache[ChaveAleatorio].valor.linhas[1][1]
          /\ (/\ ChaveExemplos \in DOMAIN cache
              /\ now - cache[ChaveExemplos].criado < 3600)
             => /\ cache'[ChaveExemplos] = cache[ChaveExemplos]
                /\ ev'.mostrado.exemplos = cache[ChaveExemplos].valor]_vars

\* a later press of "Objeto Aleatório", at another time within the ttl,
\* has shown the object drawn by the first execution
C20_Witness ==
    /\ ev.op = "main"
    /\ ev.pagina = "Busca por ID"
    /\ ev.botao = "Objeto Aleatório"
    /\ ~ev.erro
    /\ \E i \in DOMAIN ev.chamadas :
          /\ ev.chamadas[i].arg = "Q_aleatorio"
          /\ ev.chamadas[i].acerto
          /\ ev.chamadas[i].em > ev.chamadas[i].criadoAntes
          /\ ev.mostrado.objeto = ev.chamadas[i].ret.linhas[1][1]

====
